---- MODULE Spec2Model ----
(***************************************************************************)
(* Model of debug_model.py: a straight-line script that checks a path,     *)
(* loads a saved model, scans the graph's node list twice, reloads the     *)
(* model and scans its variables, printing what it finds.  The external    *)
(* runtime (tf.saved_model) is modelled by what the script reads from it:  *)
(* a handle per load, carrying the part of the artifact the script reads   *)
(* through it (the node list for the first load, the variable collection   *)
(* for the second), and a failure that any runtime call may raise.         *)
(***************************************************************************)
EXTENDS Integers, Sequences, FiniteSets

VARIABLES
    path_exists,    \* filesystem: does model_path exist
    pc,             \* position of the script
    loads,          \* number of tf.saved_model.load invocations so far
    model,          \* handle bound by line 8
    concrete_func,  \* bound by line 11
    graph_def,      \* bound by line 14
    reloaded,       \* the anonymous handle of line 34
    iter,           \* the collection the running for-loop iterates
    i,              \* position of the running for-loop's iterator
    out,            \* console output, in emission order
    exc             \* the exception caught by line 41 ("" when none)

vars == <<path_exists, pc, loads, model, concrete_func, graph_def,
          reloaded, iter, i, out, exc>>

-----------------------------------------------------------------------------
(* Bounds *)

MaxNodes == 2
MaxVars == 2
MaxDim == 5

-----------------------------------------------------------------------------
(* Strings: substring test and str.lower *)

Contains(sub, s) ==
    \E k \in 1..(Len(s) - Len(sub) + 1) : SubSeq(s, k, k + Len(sub) - 1) = sub

UpperChars == "ABCDEFGHIJKLMNOPQRSTUVWXYZ"
LowerChars == "abcdefghijklmnopqrstuvwxyz"

LowerChar(c) ==
    IF \E k \in 1..26 : SubSeq(UpperChars, k, k) = c
    THEN LET k == CHOOSE k \in 1..26 : SubSeq(UpperChars, k, k) = c
         IN  SubSeq(LowerChars, k, k)
    ELSE c

RECURSIVE LowerFrom(_, _)
LowerFrom(s, k) ==
    IF k > Len(s) THEN "" ELSE LowerChar(SubSeq(s, k, k)) \o LowerFrom(s, k + 1)

Lower(s) == LowerFrom(s, 1)

-----------------------------------------------------------------------------
(* The artifacts the runtime may hand to the script *)

model_path == "src/main/resources/models/2D/he_heavy_augment"

\* Graph node records: name, op, input and (optionally) attr.
NodePool ==
    { [name |-> "conv2d_1/kernel", op |-> "Const", input |-> <<>>,
       attr |-> [shape |-> <<3, 3>>, dtype |-> <<>>]],
      [name |-> "conv2d_1/Conv2D", op |-> "Conv2D",
       input |-> <<"input_1", "conv2d_1/kernel">>, attr |-> [dtype |-> <<>>]],
      [name |-> "Conv2D/weight", op |-> "Conv2D", input |-> <<>>],
      [name |-> "conv2d_1/Kernel", op |-> "conv2d", input |-> <<"x">>,
       attr |-> [dtype |-> <<>>]],
      [name |-> "conv2d_1/kernel/Conv2D", op |-> "Conv2D",
       input |-> <<"conv2d/Relu">>, attr |-> [shape |-> <<1, 1>>]] }

RECURSIVE Size(_)
Size(shape) == IF shape = <<>> THEN 1 ELSE Head(shape) * Size(Tail(shape))

\* Variable records: name, trainable flag, shape and the row-major buffer.
Variable(name, trainable, shape) ==
    [name |-> name, trainable |-> trainable, shape |-> shape,
     buf |-> [k \in 1..Size(shape) |-> 100 + k]]

VarPool ==
    { Variable("conv2d_1/kernel:0", TRUE, <<3, MaxDim>>),
      Variable("ema/conv2d_1/kernel:0", FALSE, <<2, MaxDim>>),
      Variable("conv2d_1/kernel_1x1:0", TRUE, <<MaxDim>>),
      Variable("conv2d_1/bias:0", TRUE, <<MaxDim>>) }

SeqsUpTo(S, n) == UNION { [1..k -> S] : k \in 0..n }

\* what a saved model may hold
Graphs == SeqsUpTo(NodePool, MaxNodes)
VarLists == SeqsUpTo(VarPool, MaxVars)

None == [id |-> 0]

-----------------------------------------------------------------------------
(* Runtime calls *)

os_path_exists_always(p) == TRUE

os_path_exists(p) == path_exists

\* tf.saved_model.load: the n-th invocation returns a fresh handle on the
\* artifact's content
Load(n, content) ==
    [f \in {"id"} \cup DOMAIN content |-> IF f = "id" THEN n ELSE content[f]]

Signature(m) == [id |-> m.id, node |-> m.node]

AsGraphDef(f) == [id |-> f.id, node |-> f.node]

RECURSIVE Trainable(_)
Trainable(vs) ==
    IF vs = <<>> THEN <<>>
    ELSE (IF Head(vs).trainable THEN <<Head(vs)>> ELSE <<>>) \o Trainable(Tail(vs))

TrainableVariables(m) == [id |-> m.id, items |-> Trainable(m.variables)]

\* the .variables collection of a handle: every variable, trainable or not
Variables(m) == [id |-> m.id, items |-> m.variables]

FirstFewWhole(buf) == buf

\* numpy().flatten()[:10]
FirstFew(buf) == SubSeq(buf, 1, IF Len(buf) < 10 THEN Len(buf) ELSE 10)

-----------------------------------------------------------------------------
(* Predicates of the three scans *)

IsFirstConvAnyCase(node) ==
    /\ Contains("conv2d", Lower(node.name))
    /\ (Contains("kernel", Lower(node.name)) \/ Contains("weight", Lower(node.name)))

IsFirstConv(node) ==
    /\ Contains("conv2d", Lower(node.name))
    /\ (Contains("kernel", node.name) \/ Contains("weight", node.name))

HasShape(node) == "attr" \in DOMAIN node /\ "shape" \in DOMAIN node.attr

IsConv2DOpOnly(node) == node.op = "Conv2D"

IsConv2DOp(node) == node.op = "Conv2D" /\ Contains("conv2d_1", node.name)

IsKernelVar(var) == Contains("conv2d_1", var.name) /\ Contains("kernel", var.name)

-----------------------------------------------------------------------------
(* Output *)

Line(fd, k, v) == [fd |-> fd, k |-> k, v |-> v]
Stdout(k, v) == Line("stdout", k, v)

Heading1 == Stdout("text", "=== FIRST CONV LAYER INFO ===")
Heading2 == Stdout("text", "=== VARIABLES ===")
Blank == Stdout("text", "")

NodeLines(node) ==
    <<Stdout("Node", node.name), Stdout("Op", node.op)>>
    \o (IF HasShape(node) THEN <<Stdout("Shape", node.attr.shape)>> ELSE <<>>)

Conv2DLines(node) ==
    <<Stdout("Conv2D node", node.name), Stdout("Inputs", node.input)>>

VarLines(var) ==
    <<Stdout("Variable", var.name), Stdout("Shape", var.shape),
      Stdout("First few values", FirstFew(var.buf))>>

ErrorLineNoMessage(e) == Stdout("Error", "")

ErrorLine(e) == Stdout("Error", e)

TraceLine(e) == Line("stderr", "Traceback", e)

\* the text of the exception the runtime raises at a step
Message(step) == step \o " failed"

Guarded == {"load1", "signature", "graph", "scan1", "scan2", "load2", "scan3"}

-----------------------------------------------------------------------------
(* The script *)

Init ==
    /\ path_exists \in BOOLEAN
    /\ pc = "start"
    /\ loads = 0
    /\ model = None
    /\ concrete_func = None
    /\ graph_def = None
    /\ reloaded = None
    /\ iter = [id |-> 0, items |-> <<>>]
    /\ i = 1
    /\ out = <<>>
    /\ exc = ""

\* line 6
CheckPath ==
    /\ pc = "start"
    /\ pc' = IF os_path_exists(model_path) THEN "load1" ELSE "else"
    /\ UNCHANGED <<path_exists, loads, model, concrete_func,
                   graph_def, reloaded, iter, i, out, exc>>

\* lines 45-46
NotFound ==
    /\ pc = "else"
    /\ out' = Append(out, Stdout("Model path not found", model_path))
    /\ pc' = "done"
    /\ UNCHANGED <<path_exists, loads, model, concrete_func,
                   graph_def, reloaded, iter, i, exc>>

\* line 8
Load1 ==
    /\ pc = "load1"
    /\ loads' = loads + 1
    /\ \E g \in Graphs : model' = Load(loads + 1, [node |-> g])
    /\ pc' = "signature"
    /\ UNCHANGED <<path_exists, concrete_func, graph_def, reloaded,
                   iter, i, out, exc>>

\* line 11
GetSignature ==
    /\ pc = "signature"
    /\ concrete_func' = Signature(model)
    /\ pc' = "graph"
    /\ UNCHANGED <<path_exists, loads, model, graph_def, reloaded,
                   iter, i, out, exc>>

\* line 14
GetGraph ==
    /\ pc = "graph"
    /\ graph_def' = AsGraphDef(concrete_func)
    /\ pc' = "heading1"
    /\ UNCHANGED <<path_exists, loads, model, concrete_func,
                   reloaded, iter, i, out, exc>>

\* lines 16-17: the heading, then the first loop's iterator is created
PrintHeading1 ==
    /\ pc = "heading1"
    /\ out' = Append(out, Heading1)
    /\ iter' = [id |-> graph_def.id, items |-> graph_def.node]
    /\ i' = 1
    /\ pc' = "scan1"
    /\ UNCHANGED <<path_exists, loads, model, concrete_func,
                   graph_def, reloaded, exc>>

NextLoopResumes(coll) == [items |-> coll, pos |-> i + 1]

\* the iterator a for-loop that follows another one starts from
NextLoop(coll) == [items |-> coll, pos |-> 1]

\* lines 17-18: an iteration whose node does not match
Scan1Skip ==
    /\ pc = "scan1"
    /\ i <= Len(iter.items)
    /\ ~IsFirstConv(iter.items[i])
    /\ i' = i + 1
    /\ UNCHANGED <<path_exists, pc, loads, model, concrete_func,
                   graph_def, reloaded, iter, out, exc>>

Scan1MatchNoBreak ==
    /\ pc = "scan1"
    /\ i <= Len(iter.items)
    /\ IsFirstConv(iter.items[i])
    /\ out' = out \o NodeLines(iter.items[i])
    /\ i' = i + 1
    /\ UNCHANGED <<path_exists, pc, loads, model, concrete_func,
                   graph_def, reloaded, iter, exc>>

\* lines 18-23 and 26: the matching iteration prints and breaks
Scan1Match ==
    /\ pc = "scan1"
    /\ i <= Len(iter.items)
    /\ IsFirstConv(iter.items[i])
    /\ out' = out \o NodeLines(iter.items[i])
    /\ iter' = [id |-> graph_def.id, items |-> NextLoop(graph_def.node).items]
    /\ i' = NextLoop(graph_def.node).pos
    /\ pc' = "scan2"
    /\ UNCHANGED <<path_exists, loads, model, concrete_func,
                   graph_def, reloaded, exc>>

\* lines 17 and 26: the list is exhausted without a match
Scan1End ==
    /\ pc = "scan1"
    /\ i > Len(iter.items)
    /\ iter' = [id |-> graph_def.id, items |-> NextLoop(graph_def.node).items]
    /\ i' = NextLoop(graph_def.node).pos
    /\ pc' = "scan2"
    /\ UNCHANGED <<path_exists, loads, model, concrete_func,
                   graph_def, reloaded, out, exc>>

\* lines 26-27
Scan2Skip ==
    /\ pc = "scan2"
    /\ i <= Len(iter.items)
    /\ ~IsConv2DOp(iter.items[i])
    /\ i' = i + 1
    /\ UNCHANGED <<path_exists, pc, loads, model, concrete_func,
                   graph_def, reloaded, iter, out, exc>>

\* lines 27-30
Scan2Match ==
    /\ pc = "scan2"
    /\ i <= Len(iter.items)
    /\ IsConv2DOp(iter.items[i])
    /\ out' = out \o Conv2DLines(iter.items[i])
    /\ pc' = "heading2"
    /\ UNCHANGED <<path_exists, loads, model, concrete_func,
                   graph_def, reloaded, iter, i, exc>>

\* line 26: the list is exhausted without a match
Scan2End ==
    /\ pc = "scan2"
    /\ i > Len(iter.items)
    /\ pc' = "heading2"
    /\ UNCHANGED <<path_exists, loads, model, concrete_func,
                   graph_def, reloaded, iter, i, out, exc>>

\* line 33
PrintHeading2 ==
    /\ pc = "heading2"
    /\ out' = out \o <<Blank, Heading2>>
    /\ pc' = "load2"
    /\ UNCHANGED <<path_exists, loads, model, concrete_func,
                   graph_def, reloaded, iter, i, exc>>

Load2Reuses ==
    /\ pc = "load2"
    /\ \E vs \in VarLists : iter' = Variables([id |-> model.id, variables |-> vs])
    /\ i' = 1
    /\ pc' = "scan3"
    /\ UNCHANGED <<path_exists, loads, model, concrete_func,
                   graph_def, reloaded, out, exc>>

\* line 34: the second load and the iterator over its .variables
Load2 ==
    /\ pc = "load2"
    /\ loads' = loads + 1
    /\ \E vs \in VarLists :
            /\ reloaded' = Load(loads + 1, [variables |-> vs])
            /\ iter' = Variables(Load(loads + 1, [variables |-> vs]))
    /\ i' = 1
    /\ pc' = "scan3"
    /\ UNCHANGED <<path_exists, model, concrete_func, graph_def,
                   out, exc>>

\* lines 34-35
Scan3Skip ==
    /\ pc = "scan3"
    /\ i <= Len(iter.items)
    /\ ~IsKernelVar(iter.items[i])
    /\ i' = i + 1
    /\ UNCHANGED <<path_exists, pc, loads, model, concrete_func,
                   graph_def, reloaded, iter, out, exc>>

\* lines 35-39
Scan3Match ==
    /\ pc = "scan3"
    /\ i <= Len(iter.items)
    /\ IsKernelVar(iter.items[i])
    /\ out' = out \o VarLines(iter.items[i])
    /\ pc' = "done"
    /\ UNCHANGED <<path_exists, loads, model, concrete_func,
                   graph_def, reloaded, iter, i, exc>>

\* line 34: the collection is exhausted without a match
Scan3End ==
    /\ pc = "scan3"
    /\ i > Len(iter.items)
    /\ pc' = "done"
    /\ UNCHANGED <<path_exists, loads, model, concrete_func,
                   graph_def, reloaded, iter, i, out, exc>>

\* lines 7, 41: a runtime call of the guarded block raises; a load that
\* raises has been invoked
Raise ==
    /\ pc \in Guarded
    /\ exc' = Message(pc)
    /\ loads' = IF pc \in {"load1", "load2"} THEN loads + 1 ELSE loads
    /\ pc' = "except"
    /\ UNCHANGED <<path_exists, model, concrete_func, graph_def,
                   reloaded, iter, i, out>>

PrintErrorAlone ==
    /\ pc = "except"
    /\ out' = <<ErrorLine(exc)>>
    /\ pc' = "traceback"
    /\ UNCHANGED <<path_exists, loads, model, concrete_func,
                   graph_def, reloaded, iter, i, exc>>

\* line 42
PrintError ==
    /\ pc = "except"
    /\ out' = Append(out, ErrorLine(exc))
    /\ pc' = "traceback"
    /\ UNCHANGED <<path_exists, loads, model, concrete_func,
                   graph_def, reloaded, iter, i, exc>>

\* lines 43-44: traceback.print_exc writes to stderr
PrintTraceback ==
    /\ pc = "traceback"
    /\ out' = Append(out, TraceLine(exc))
    /\ pc' = "done"
    /\ UNCHANGED <<path_exists, loads, model, concrete_func,
                   graph_def, reloaded, iter, i, exc>>

Next ==
    \/ CheckPath
    \/ NotFound
    \/ Load1
    \/ GetSignature
    \/ GetGraph
    \/ PrintHeading1
    \/ Scan1Skip
    \/ Scan1Match
    \/ Scan1End
    \/ Scan2Skip
    \/ Scan2Match
    \/ Scan2End
    \/ PrintHeading2
    \/ Load2
    \/ Scan3Skip
    \/ Scan3Match
    \/ Scan3End
    \/ Raise
    \/ PrintError
    \/ PrintTraceback

Spec == Init /\ [][Next]_vars

-----------------------------------------------------------------------------
(* Reading the output *)

Kind(k) == {j \in 1..Len(out) : out[j].k = k}
At(l) == {j \in 1..Len(out) : out[j] = l}
Earliest(S) == CHOOSE j \in S : \A m \in S : j <= m
IsPrefix(s, t) == Len(s) <= Len(t) /\ SubSeq(t, 1, Len(s)) = s

\* the parts of the run: before, inside and after the graph scans
BeforeScans == {"start", "load1", "signature", "graph", "heading1"}
Scan2Finished == pc = "heading2" \/ At(Heading2) # {}

-----------------------------------------------------------------------------
(* C1: when the model path does not exist the run prints "Model path not   *)
(* found: <path>", never invokes the load operation, and prints neither a  *)
(* heading nor an "Error: " line.                                          *)

C1_MissingPathNoLoad ==
    ~path_exists =>
        /\ loads = 0
        /\ model = None /\ reloaded = None
        /\ Kind("Error") = {} /\ Kind("text") = {}
        /\ exc = ""
        /\ pc = "done" => out = <<Stdout("Model path not found", model_path)>>

C1_Witness ==
    ~path_exists /\ pc = "done" /\ Kind("Model path not found") # {}

-----------------------------------------------------------------------------
(* C2: once a guarded step has raised, the output receives "Error: " with  *)
(* the failure's message and then the stack trace, and no later inspection *)
(* step runs: no load, no binding, no scan position and no other line      *)
(* changes after the failure.                                              *)

C2_FailureAborts ==
    [][ /\ exc # "" =>
            /\ <<loads, model, concrete_func, graph_def, reloaded, iter, i, exc>>'
                 = <<loads, model, concrete_func, graph_def, reloaded, iter, i, exc>>
            /\ pc' \in {"traceback", "done"}
            /\ \/ out' = Append(out, Stdout("Error", exc)) /\ pc = "except"
               \/ out' = Append(out, Line("stderr", "Traceback", exc))
                  /\ pc = "traceback"
                  /\ out[Len(out)] = Stdout("Error", exc)
        /\ (exc = "" /\ exc' # "") =>
            /\ pc \in Guarded /\ pc' = "except"
            /\ exc' = Message(pc)
            /\ out' = out
      ]_vars

C2_Witness ==
    /\ pc = "done" /\ exc = Message("scan2")
    /\ Kind("Node") # {}
    /\ Kind("Traceback") = {Len(out)} /\ Kind("Error") = {Len(out) - 1}

-----------------------------------------------------------------------------
(* C3: after the heading the first scan prints the name and op of the      *)
(* earliest node whose name contains "conv2d" (case-insensitively) and     *)
(* "kernel" or "weight", a Shape line exactly when that node has a "shape" *)
(* attribute, and nothing for any later matching node.                     *)

C3_FirstScanReportsEarliest ==
    LET nodes == graph_def.node
        marked(n) ==
            /\ Contains("conv2d", Lower(n.name))
            /\ Contains("kernel", n.name) \/ Contains("weight", n.name)
        M == {j \in 1..Len(nodes) : marked(nodes[j])}
        first == nodes[Earliest(M)]
        shaped == "attr" \in DOMAIN first /\ "shape" \in DOMAIN first.attr
        expected ==
            IF M = {} THEN <<>>
            ELSE <<Stdout("Node", first.name), Stdout("Op", first.op)>>
                 \o (IF shaped THEN <<Stdout("Shape", first.attr.shape)>> ELSE <<>>)
    IN  /\ pc = "scan1" =>
            /\ out = <<Heading1>>
            /\ \A j \in M : j >= i
        /\ pc = "scan2" => out = <<Heading1>> \o expected
        /\ (pc = "scan2" /\ Len(nodes) = 1 /\ nodes[1].name = "conv2d_1/kernel") =>
            /\ out[2] = Stdout("Node", "conv2d_1/kernel")
            /\ out[3] = Stdout("Op", "Const")

C3_Witness ==
    /\ pc = "scan2"
    /\ Len(graph_def.node) = 2
    /\ IsFirstConv(graph_def.node[1]) /\ IsFirstConv(graph_def.node[2])
    /\ graph_def.node[1] # graph_def.node[2]
    /\ Len(out) = 3

-----------------------------------------------------------------------------
(* C4: with no node matching the convolution+kernel filter, the first      *)
(* section is its heading alone (no Node, Op or Shape line) and the run    *)
(* goes on to the following steps with no error reported.                  *)

C4_NoMatchHeadingOnly ==
    LET nodes == graph_def.node
        marked(n) ==
            /\ Contains("conv2d", Lower(n.name))
            /\ Contains("kernel", n.name) \/ Contains("weight", n.name)
        nomatch == \A j \in 1..Len(nodes) : ~marked(nodes[j])
        section == IF At(Heading2) = {} THEN 1..Len(out)
                   ELSE 1..(Earliest(At(Heading2)) - 1)
    IN  (path_exists /\ exc = "" /\ pc \notin BeforeScans /\ nomatch) =>
            /\ out[1] = Heading1
            /\ \A j \in section : out[j].k \notin {"Node", "Op", "Shape", "Error"}
            /\ pc = "scan2" => out = <<Heading1>>
            /\ pc \in {"scan1", "scan2", "heading2", "load2", "scan3", "done"}

C4_Witness ==
    /\ pc = "done" /\ exc = "" /\ path_exists
    /\ Len(graph_def.node) = 2
    /\ \A j \in 1..2 : ~IsFirstConv(graph_def.node[j])
    /\ Kind("Node") = {}

-----------------------------------------------------------------------------
(* C5: when the node list holds one or more nodes with op exactly "Conv2D" *)
(* and "conv2d_1" in the name, a completed second scan has printed the     *)
(* "Conv2D node:" and "Inputs:" lines once each, for the earliest such     *)
(* node; with no such node neither line is printed.                        *)

C5_SecondScanOnce ==
    LET nodes == graph_def.node
        M == {j \in 1..Len(nodes) :
                nodes[j].op = "Conv2D" /\ Contains("conv2d_1", nodes[j].name)}
        first == nodes[Earliest(M)]
    IN  Scan2Finished =>
            IF M = {}
            THEN Kind("Conv2D node") = {} /\ Kind("Inputs") = {}
            ELSE /\ Cardinality(Kind("Conv2D node")) = 1
                 /\ Cardinality(Kind("Inputs")) = 1
                 /\ \A j \in Kind("Conv2D node") :
                        /\ out[j] = Stdout("Conv2D node", first.name)
                        /\ out[j + 1] = Stdout("Inputs", first.input)

C5_Witness ==
    /\ pc = "done" /\ exc = "" /\ path_exists
    /\ Len(graph_def.node) = 2
    /\ IsConv2DOp(graph_def.node[1]) /\ IsConv2DOp(graph_def.node[2])
    /\ graph_def.node[1] # graph_def.node[2]
    /\ Cardinality(Kind("Conv2D node")) = 1

-----------------------------------------------------------------------------
(* C6 as stated: the reported variable's line of values holds exactly ten  *)
(* values whatever the size of the variable.                               *)

C6_ExactlyTenValues ==
    \A j \in Kind("First few values") : Len(out[j].v) = 10

(* C6 as amended: the first variable whose name contains "conv2d_1" and    *)
(* "kernel" is printed under the VARIABLES heading with its name, its      *)
(* shape and the first ten values of its flattened contents, or all of its *)
(* values when it holds fewer than ten.                                    *)

C6_FirstTenOrAll ==
    LET vs == reloaded.variables
        M == {j \in 1..Len(vs) :
                Contains("conv2d_1", vs[j].name) /\ Contains("kernel", vs[j].name)}
        v == vs[Earliest(M)]
        n == IF Len(v.buf) < 10 THEN Len(v.buf) ELSE 10
    IN  (pc = "done" /\ path_exists /\ exc = "" /\ M # {}) =>
            /\ Len(out) >= 4
            /\ out[Len(out) - 3] = Heading2
            /\ out[Len(out) - 2] = Stdout("Variable", v.name)
            /\ out[Len(out) - 1] = Stdout("Shape", v.shape)
            /\ out[Len(out)].k = "First few values"
            /\ Len(out[Len(out)].v) = n
            /\ \A k \in 1..n : out[Len(out)].v[k] = v.buf[k]

C6_Witness ==
    /\ pc = "done" /\ exc = "" /\ path_exists
    /\ \E j \in Kind("First few values") : Len(out[j].v) < 10
    /\ \E j \in 1..Len(reloaded.variables) : Len(reloaded.variables[j].buf) > 10

-----------------------------------------------------------------------------
(* C7: a run without failure invokes the load twice: once before the graph *)
(* scans, once after both scans and the VARIABLES heading; the graph scans *)
(* read the first handle, the variable scan the second; a failure before   *)
(* the variable section leaves the second load undone.                     *)

C7_TwoLoads ==
    /\ pc \in {"start", "load1", "else"} => loads = 0
    /\ pc \in {"signature", "graph", "heading1", "scan1", "scan2", "heading2", "load2"} =>
            loads = 1 /\ model.id = 1 /\ reloaded = None
    /\ pc \in {"scan1", "scan2"} => graph_def.id = 1 /\ iter.id = 1
    /\ pc = "load2" => At(Heading2) # {} /\ Scan2Finished
    /\ pc = "scan3" =>
            /\ loads = 2
            /\ model.id = 1 /\ reloaded.id = 2 /\ iter.id = 2
            /\ At(Heading2) # {}
    /\ (pc = "done" /\ path_exists /\ exc = "") => loads = 2
    /\ exc \in {Message(st) : st \in {"load1", "signature", "graph", "scan1", "scan2"}} =>
            loads = 1 /\ reloaded = None

C7_Witness ==
    /\ pc = "done" /\ exc = "" /\ loads = 2
    /\ Kind("Node") # {} /\ Kind("Variable") # {}

-----------------------------------------------------------------------------
(* C8 as stated: the reported variable is the first trainable variable     *)
(* whose name contains both markers; a non-trainable one is never reported.*)

C8_OnlyTrainable ==
    LET vs == reloaded.variables
        T == {j \in 1..Len(vs) :
                /\ vs[j].trainable
                /\ Contains("conv2d_1", vs[j].name) /\ Contains("kernel", vs[j].name)}
    IN  (pc = "done" /\ path_exists /\ exc = "") =>
            IF T = {} THEN Kind("Variable") = {}
            ELSE \A j \in Kind("Variable") : out[j].v = vs[Earliest(T)].name

(* C8 as amended: the variable scan considers every variable of the        *)
(* model's .variables collection, trainable or not: the variable reported  *)
(* is the first one whose name contains "conv2d_1" and "kernel".           *)

C8_FirstOfAllVariables ==
    LET vs == reloaded.variables
        M == {j \in 1..Len(vs) :
                Contains("conv2d_1", vs[j].name) /\ Contains("kernel", vs[j].name)}
    IN  /\ pc = "scan3" => iter.items = vs /\ \A j \in M : j >= i
        /\ (pc = "done" /\ path_exists /\ exc = "") =>
            IF M = {} THEN Kind("Variable") = {}
            ELSE /\ Cardinality(Kind("Variable")) = 1
                 /\ \A j \in Kind("Variable") : out[j].v = vs[Earliest(M)].name

C8_Witness ==
    /\ pc = "done" /\ exc = "" /\ path_exists
    /\ Len(reloaded.variables) = 2
    /\ ~reloaded.variables[1].trainable /\ reloaded.variables[2].trainable
    /\ IsKernelVar(reloaded.variables[2])
    /\ \E j \in Kind("Variable") : out[j].v = reloaded.variables[1].name

-----------------------------------------------------------------------------
(* C9: the second scan starts again at the head of the same node list: no  *)
(* matching node is skipped wherever the first scan stopped, and its       *)
(* result is the earliest Conv2D match of the whole list.                  *)

C9_SecondScanRestarts ==
    LET nodes == graph_def.node
        M == {j \in 1..Len(nodes) :
                nodes[j].op = "Conv2D" /\ Contains("conv2d_1", nodes[j].name)}
    IN  /\ pc = "scan2" =>
            /\ iter.items = nodes
            /\ \A j \in M : j >= i
            /\ Kind("Conv2D node") = {}
        /\ pc = "heading2" =>
            IF M = {} THEN i = Len(nodes) + 1 /\ Kind("Conv2D node") = {}
            ELSE i = Earliest(M) /\ Kind("Conv2D node") # {}

C9_Witness ==
    /\ pc = "heading2"
    /\ Len(graph_def.node) = 2
    /\ IsConv2DOp(graph_def.node[1]) /\ ~IsFirstConv(graph_def.node[1])
    /\ IsFirstConv(graph_def.node[2])
    /\ Kind("Node") # {}
    /\ \E j \in Kind("Conv2D node") : out[j].v = graph_def.node[1].name

-----------------------------------------------------------------------------
(* C10: output only grows, in program order: each heading at most once,    *)
(* the first heading before the Node/Conv2D lines, these before the        *)
(* VARIABLES heading, that before the Variable lines; "Error: " at most    *)
(* once, after everything printed before the failure, with only the stack  *)
(* trace after it.                                                         *)

C10_Ordered ==
    /\ Cardinality(At(Heading1)) <= 1
    /\ Cardinality(At(Heading2)) <= 1
    /\ Cardinality(Kind("Error")) <= 1
    /\ \A j \in Kind("Node") \cup Kind("Op") \cup Kind("Conv2D node") \cup Kind("Inputs") :
            /\ \E h \in At(Heading1) : h < j
            /\ \A h \in At(Heading2) : j < h
    /\ \A j \in Kind("Variable") \cup Kind("First few values") :
            \E h \in At(Heading2) : h < j
    /\ \A h1 \in At(Heading1) : \A h2 \in At(Heading2) : h1 < h2
    /\ \A e \in Kind("Error") :
            /\ \A j \in (e + 1)..Len(out) : out[j].k = "Traceback"
            /\ e >= Len(out) - 1
            /\ pc \in {"traceback", "done"}
            /\ exc \in {Message("load2"), Message("scan3")} =>
                   \E h1 \in At(Heading1) : \E h2 \in At(Heading2) : h1 < h2 /\ h2 < e

C10_OutputInOrder == [][IsPrefix(out, out') /\ C10_Ordered']_vars

C10_Witness ==
    /\ pc = "done" /\ exc = Message("scan3")
    /\ Kind("Node") # {} /\ Kind("Conv2D node") # {}
    /\ Kind("Error") # {}

====
